---- MODULE Spec2Model ----
(***************************************************************************)
(* Model of the Linky TIC collector (pkg/collectors/linky-standard-        *)
(* collector.go): Collect, readSerial, proceedLine and the metric          *)
(* projection, with the byte-level helpers they rely on.                   *)
(*                                                                         *)
(* A Go string is a sequence of bytes (0..255).  An unsigned 32-bit value  *)
(* is a pair <<hi, lo>> of 16-bit halves (value = hi * 65536 + lo), since  *)
(* the model checker's integers are narrower than uint32.                  *)
(***************************************************************************)
EXTENDS Integers, Sequences, FiniteSets, TLC

\* ---- bounds ----
MaxLines == 4       \* lines delivered by the stream in one collection
MaxCycles == 2      \* collections (scrapes) in one run

\* ---- control bytes ----
STX == 2
ETX == 3
TAB == 9

\* ---- strings ----
\* strings.Contains(line, string(b)) for a one-byte needle
Contains(line, b) == \E i \in 1..Len(line) : line[i] = b

\* strings.Split(s, sep) for a one-byte separator: always at least one token
RECURSIVE Split(_, _)
Split(s, sep) ==
  IF ~Contains(s, sep) THEN <<s>>
  ELSE LET k == CHOOSE i \in 1..Len(s) :
                  s[i] = sep /\ \A j \in 1..(i - 1) : s[j] # sep
       IN  <<SubSeq(s, 1, k - 1)>> \o Split(SubSeq(s, k + 1, Len(s)), sep)

\* ToLower leaving the bytes as they are
ToLower_Identity(s) == s

\* strings.ToLower on ASCII bytes
ToLower(s) == [i \in 1..Len(s) |-> IF s[i] \in 65..90 THEN s[i] + 32 ELSE s[i]]

\* ---- strconv ----
U32(n) == <<n \div 65536, n % 65536>>

IsDigit(b) == b \in 48..57

\* n * 10 + d on the <<hi, lo>> representation (hi may exceed 16 bits)
MulAdd(n, d) ==
  LET lo == n[2] * 10 + d
  IN  <<n[1] * 10 + (lo \div 65536), lo % 65536>>

\* n1 > maxVal for maxVal = 1<<bitSize - 1
Exceeds(n, bitSize) ==
  CASE bitSize = 32 -> n[1] > 65535
    [] bitSize = 16 -> n[1] > 0
    [] bitSize = 8  -> n[1] > 0 \/ n[2] > 255

MaxVal(bitSize) ==
  CASE bitSize = 32 -> <<65535, 65535>>
    [] bitSize = 16 -> <<0, 65535>>
    [] bitSize = 8  -> <<0, 255>>

RECURSIVE ParseUintLoop(_, _, _, _)
ParseUintLoop(s, i, n, bitSize) ==
  IF i > Len(s) THEN [val |-> n, err |-> "nil"]
  ELSE IF ~IsDigit(s[i]) THEN [val |-> <<0, 0>>, err |-> "ErrSyntax"]
  ELSE LET n1 == MulAdd(n, s[i] - 48)
       IN  IF Exceeds(n1, bitSize)
           THEN [val |-> MaxVal(bitSize), err |-> "ErrRange"]
           ELSE ParseUintLoop(s, i + 1, n1, bitSize)

\* strconv.ParseUint(s, 10, bitSize): the value comes back even when err is set
ParseUint(s, bitSize) ==
  IF Len(s) = 0 THEN [val |-> <<0, 0>>, err |-> "ErrSyntax"]
  ELSE ParseUintLoop(s, 1, <<0, 0>>, bitSize)

\* ParseInt16 parsing as the unsigned fields do: no sign accepted
ParseInt16_Unsigned(s) ==
  [val |-> ParseUint(s, 16).val[2], err |-> ParseUint(s, 16).err]

\* strconv.ParseInt(s, 10, 16)
ParseInt16(s) ==
  IF Len(s) = 0 THEN [val |-> 0, err |-> "ErrSyntax"]
  ELSE LET neg  == s[1] = 45
           rest == IF s[1] \in {43, 45} THEN SubSeq(s, 2, Len(s)) ELSE s
           u    == ParseUint(rest, 16)
           un   == u.val[2]
       IN  IF u.err = "ErrSyntax" THEN [val |-> 0, err |-> "ErrSyntax"]
           ELSE IF ~neg /\ un >= 32768 THEN [val |-> 32767, err |-> "ErrRange"]
           ELSE IF neg /\ un > 32768 THEN [val |-> -32768, err |-> "ErrRange"]
           ELSE [val |-> IF neg THEN -un ELSE un, err |-> "nil"]

\* ---- the Snapshot (type linkyValues) ----
\* linkyValues{}: every field at the zero value of its type
linkyValuesZero ==
  [ adsc |-> <<>>, vtic |-> <<>>, date |-> <<>>, ngtf |-> <<>>,
    ltarf |-> <<>>, east |-> <<0, 0>>, easf01 |-> <<0, 0>>, easf02 |-> <<0, 0>>,
    easf03 |-> <<0, 0>>, easf04 |-> <<0, 0>>, easf05 |-> <<0, 0>>, easf06 |-> <<0, 0>>,
    easf07 |-> <<0, 0>>, easf08 |-> <<0, 0>>, easf09 |-> <<0, 0>>, easf10 |-> <<0, 0>>,
    easd01 |-> <<0, 0>>, easd02 |-> <<0, 0>>, easd03 |-> <<0, 0>>, easd04 |-> <<0, 0>>,
    eait |-> <<0, 0>>, erq1 |-> <<0, 0>>, erq2 |-> <<0, 0>>, erq3 |-> <<0, 0>>,
    erq4 |-> <<0, 0>>, irms1 |-> 0, irms2 |-> 0, irms3 |-> 0,
    urms1 |-> 0, urms2 |-> 0, urms3 |-> 0, pref |-> 0,
    pcoup |-> 0, sinsts |-> 0, sinsts1 |-> 0, sinsts2 |-> 0,
    sinsts3 |-> 0, sinsti |-> 0, stge |-> <<>>, dpm1 |-> <<>>,
    dpm1_timestamp |-> <<>>, fpm1 |-> <<>>, fpm1_timestamp |-> <<>>, dpm2 |-> <<>>,
    dpm2_timestamp |-> <<>>, fpm2 |-> <<>>, fpm2_timestamp |-> <<>>, dpm3 |-> <<>>,
    dpm3_timestamp |-> <<>>, fpm3 |-> <<>>, fpm3_timestamp |-> <<>>, msg1 |-> <<>>,
    msg2 |-> <<>>, prm |-> <<>>, relais |-> 0, ntarf |-> <<>>,
    njourf |-> <<>>, njourf_1 |-> <<>>, pjourf_1 |-> <<>>, ppointe |-> <<>> ]

FieldNames == DOMAIN linkyValuesZero

\* ---- proceedLine: the Field Decoder ----
\* Go indexes data from 0, the model from 1: data[1] in Go is data[2] here.
\* An index past the end of data is a run-time panic; the result carries
\* panic = TRUE and the Snapshot as it was when the panic was raised.
Ok(v) == [panic |-> FALSE, v |-> v]
Panic(v) == [panic |-> TRUE, v |-> v]

\* SetText appending to the field instead of replacing it
SetText_Append(v, f, data) ==
  IF Len(data) < 2 THEN Panic(v) ELSE Ok([v EXCEPT ![f] = v[f] \o data[2]])

\* linkyValues.f = string(data[1])
SetText(v, f, data) ==
  IF Len(data) < 2 THEN Panic(v) ELSE Ok([v EXCEPT ![f] = data[2]])

\* SetUint32 parsing with the width of the 16-bit fields
SetUint32_Narrow(v, f, data) ==
  IF Len(data) < 2 THEN Panic(v)
  ELSE Ok([v EXCEPT ![f] = ParseUint(data[2], 16).val])

\* val, _ := strconv.ParseUint(data[1], 10, 32); linkyValues.f = uint32(val)
SetUint32(v, f, data) ==
  IF Len(data) < 2 THEN Panic(v)
  ELSE Ok([v EXCEPT ![f] = ParseUint(data[2], 32).val])

\* val, _ := strconv.ParseUint(data[1], 10, 16); linkyValues.f = uint16(val)
SetUint16(v, f, data) ==
  IF Len(data) < 2 THEN Panic(v)
  ELSE Ok([v EXCEPT ![f] = ParseUint(data[2], 16).val[2]])

\* val, _ := strconv.ParseUint(data[1], 10, 8); linkyValues.f = uint8(val)
SetUint8(v, f, data) ==
  IF Len(data) < 2 THEN Panic(v)
  ELSE Ok([v EXCEPT ![f] = ParseUint(data[2], 8).val[2]])

\* val, _ := strconv.ParseInt(data[1], 10, 16); linkyValues.f = int16(val)
SetInt16(v, f, data) ==
  IF Len(data) < 2 THEN Panic(v)
  ELSE Ok([v EXCEPT ![f] = ParseInt16(data[2]).val])

\* SetPair with the two payload tokens exchanged
SetPair_Swapped(v, f, ft, data) ==
  IF Len(data) < 3 THEN Panic(v)
  ELSE Ok([v EXCEPT ![f] = data[2], ![ft] = data[3]])

\* SetPair writing every timestamp to dpm1_timestamp
SetPair_SharedStamp(v, f, ft, data) ==
  IF Len(data) < 3 THEN Panic(v)
  ELSE Ok([v EXCEPT ![f] = data[3], !["dpm1_timestamp"] = data[2]])

\* linkyValues.f = string(data[2]); linkyValues.f_timestamp = string(data[1])
SetPair(v, f, ft, data) ==
  IF Len(data) < 3 THEN Panic(v)
  ELSE Ok([v EXCEPT ![f] = data[3], ![ft] = data[2]])

\* the identifiers of the switch, as byte strings
Ident ==
  [ adsc |-> <<97, 100, 115, 99>>,
    vtic |-> <<118, 116, 105, 99>>,
    date |-> <<100, 97, 116, 101>>,
    ngtf |-> <<110, 103, 116, 102>>,
    ltarf |-> <<108, 116, 97, 114, 102>>,
    east |-> <<101, 97, 115, 116>>,
    easf01 |-> <<101, 97, 115, 102, 48, 49>>,
    easf02 |-> <<101, 97, 115, 102, 48, 50>>,
    easf03 |-> <<101, 97, 115, 102, 48, 51>>,
    easf04 |-> <<101, 97, 115, 102, 48, 52>>,
    easf05 |-> <<101, 97, 115, 102, 48, 53>>,
    easf06 |-> <<101, 97, 115, 102, 48, 54>>,
    easf07 |-> <<101, 97, 115, 102, 48, 55>>,
    easf08 |-> <<101, 97, 115, 102, 48, 56>>,
    easf09 |-> <<101, 97, 115, 102, 48, 57>>,
    easf10 |-> <<101, 97, 115, 102, 49, 48>>,
    easd01 |-> <<101, 97, 115, 100, 48, 49>>,
    easd02 |-> <<101, 97, 115, 100, 48, 50>>,
    easd03 |-> <<101, 97, 115, 100, 48, 51>>,
    easd04 |-> <<101, 97, 115, 100, 48, 52>>,
    eait |-> <<101, 97, 105, 116>>,
    erq1 |-> <<101, 114, 113, 49>>,
    erq2 |-> <<101, 114, 113, 50>>,
    erq3 |-> <<101, 114, 113, 51>>,
    erq4 |-> <<101, 114, 113, 52>>,
    irms1 |-> <<105, 114, 109, 115, 49>>,
    irms2 |-> <<105, 114, 109, 115, 50>>,
    irms3 |-> <<105, 114, 109, 115, 51>>,
    urms1 |-> <<117, 114, 109, 115, 49>>,
    urms2 |-> <<117, 114, 109, 115, 50>>,
    urms3 |-> <<117, 114, 109, 115, 51>>,
    pref |-> <<112, 114, 101, 102>>,
    pcoup |-> <<112, 99, 111, 117, 112>>,
    sinsts |-> <<115, 105, 110, 115, 116, 115>>,
    sinsts1 |-> <<115, 105, 110, 115, 116, 115, 49>>,
    sinsts2 |-> <<115, 105, 110, 115, 116, 115, 50>>,
    sinsts3 |-> <<115, 105, 110, 115, 116, 115, 51>>,
    sinsti |-> <<115, 105, 110, 115, 116, 105>>,
    stge |-> <<115, 116, 103, 101>>,
    dpm1 |-> <<100, 112, 109, 49>>,
    fpm1 |-> <<102, 112, 109, 49>>,
    dpm2 |-> <<100, 112, 109, 50>>,
    fpm2 |-> <<102, 112, 109, 50>>,
    dpm3 |-> <<100, 112, 109, 51>>,
    fpm3 |-> <<102, 112, 109, 51>>,
    msg1 |-> <<109, 115, 103, 49>>,
    msg2 |-> <<109, 115, 103, 50>>,
    prm |-> <<112, 114, 109>>,
    relais |-> <<114, 101, 108, 97, 105, 115>>,
    ntarf |-> <<110, 116, 97, 114, 102>>,
    njourf |-> <<110, 106, 111, 117, 114, 102>>,
    njourf_1 |-> <<110, 106, 111, 117, 114, 102, 43, 49>>,
    pjourf_1 |-> <<112, 106, 111, 117, 114, 102, 43, 49>>,
    ppointe |-> <<112, 112, 111, 105, 110, 116, 101>> ]

proceedLine(v, line) ==
  LET data == Split(line, TAB)
      id   == ToLower(data[1])
  IN  CASE id = Ident.adsc -> SetText(v, "adsc", data)
        [] id = Ident.vtic -> SetText(v, "vtic", data)
        [] id = Ident.date -> SetText(v, "date", data)
        [] id = Ident.ngtf -> SetText(v, "ngtf", data)
        [] id = Ident.ltarf -> SetText(v, "ltarf", data)
        [] id = Ident.east -> SetUint32(v, "east", data)
        [] id = Ident.easf01 -> SetUint32(v, "easf01", data)
        [] id = Ident.easf02 -> SetUint32(v, "easf02", data)
        [] id = Ident.easf03 -> SetUint32(v, "easf03", data)
        [] id = Ident.easf04 -> SetUint32(v, "easf04", data)
        [] id = Ident.easf05 -> SetUint32(v, "easf05", data)
        [] id = Ident.easf06 -> SetUint32(v, "easf06", data)
        [] id = Ident.easf07 -> SetUint32(v, "easf07", data)
        [] id = Ident.easf08 -> SetUint32(v, "easf08", data)
        [] id = Ident.easf09 -> SetUint32(v, "easf09", data)
        [] id = Ident.easf10 -> SetUint32(v, "easf10", data)
        [] id = Ident.easd01 -> SetUint32(v, "easd01", data)
        [] id = Ident.easd02 -> SetUint32(v, "easd02", data)
        [] id = Ident.easd03 -> SetUint32(v, "easd03", data)
        [] id = Ident.easd04 -> SetUint32(v, "easd04", data)
        [] id = Ident.eait -> SetUint32(v, "eait", data)
        [] id = Ident.erq1 -> SetUint32(v, "erq1", data)
        [] id = Ident.erq2 -> SetUint32(v, "erq2", data)
        [] id = Ident.erq3 -> SetUint32(v, "erq3", data)
        [] id = Ident.erq4 -> SetUint32(v, "erq4", data)
        [] id = Ident.irms1 -> SetUint16(v, "irms1", data)
        [] id = Ident.irms2 -> SetUint16(v, "irms2", data)
        [] id = Ident.irms3 -> SetUint16(v, "irms3", data)
        [] id = Ident.urms1 -> SetUint16(v, "urms1", data)
        [] id = Ident.urms2 -> SetUint16(v, "urms2", data)
        [] id = Ident.urms3 -> SetUint16(v, "urms3", data)
        [] id = Ident.pref -> SetUint8(v, "pref", data)
        [] id = Ident.pcoup -> SetUint8(v, "pcoup", data)
        [] id = Ident.sinsts -> SetUint16(v, "sinsts", data)
        [] id = Ident.sinsts1 -> SetInt16(v, "sinsts1", data)
        [] id = Ident.sinsts2 -> SetInt16(v, "sinsts2", data)
        [] id = Ident.sinsts3 -> SetInt16(v, "sinsts3", data)
        [] id = Ident.sinsti -> SetUint16(v, "sinsti", data)
        [] id = Ident.stge -> SetText(v, "stge", data)
        [] id = Ident.dpm1 -> SetPair(v, "dpm1", "dpm1_timestamp", data)
        [] id = Ident.fpm1 -> SetPair(v, "fpm1", "fpm1_timestamp", data)
        [] id = Ident.dpm2 -> SetPair(v, "dpm2", "dpm2_timestamp", data)
        [] id = Ident.fpm2 -> SetPair(v, "fpm2", "fpm2_timestamp", data)
        [] id = Ident.dpm3 -> SetPair(v, "dpm3", "dpm3_timestamp", data)
        [] id = Ident.fpm3 -> SetPair(v, "fpm3", "fpm3_timestamp", data)
        [] id = Ident.msg1 -> SetText(v, "msg1", data)
        [] id = Ident.msg2 -> SetText(v, "msg2", data)
        [] id = Ident.prm -> SetText(v, "prm", data)
        [] id = Ident.relais -> SetUint8(v, "relais", data)
        [] id = Ident.ntarf -> SetText(v, "ntarf", data)
        [] id = Ident.njourf -> SetText(v, "njourf", data)
        [] id = Ident.njourf_1 -> SetText(v, "njourf_1", data)
        [] id = Ident.pjourf_1 -> SetText(v, "pjourf_1", data)
        [] id = Ident.ppointe -> SetText(v, "ppointe", data)
        [] OTHER -> Ok(v)

\* ---- the declared types of the numeric fields (type linkyValues) ----
Uint32Fields ==
  { "east", "easf01", "easf02", "easf03", "easf04", "easf05", "easf06",
    "easf07", "easf08", "easf09", "easf10", "easd01", "easd02", "easd03",
    "easd04", "eait", "erq1", "erq2", "erq3", "erq4" }
Uint16Fields ==
  { "irms1", "irms2", "irms3", "urms1", "urms2", "urms3", "sinsts",
    "sinsti" }
Uint8Fields ==
  { "pref", "pcoup", "relais" }
Int16Fields ==
  { "sinsts1", "sinsts2", "sinsts3" }

NumericFields == Uint32Fields \cup Uint16Fields \cup Uint8Fields \cup Int16Fields

\* ---- the Metric Projector (Collect, success branch) ----
\* One sample per MustNewConstMetric call, in the order of the calls.  A label
\* given as a literal in the source is a model string, a label read from the
\* Snapshot is the byte string stored there.  float64 of an integer field is
\* the same number.
Sample(desc, type, value, labels) ==
  [desc |-> desc, type |-> type, value |-> value, labels |-> labels]

Project(values) ==
  << Sample("linky_info", "GaugeValue", 1,
       <<values.prm, values.adsc, values.vtic, values.date, values.ngtf, values.ltarf, values.stge, values.msg1, values.msg2, values.ntarf>>),
     Sample("linky_index", "CounterValue", values.east,
       <<values.prm, "east">>),
     Sample("linky_index", "CounterValue", values.easf01,
       <<values.prm, "easf01">>),
     Sample("linky_index", "CounterValue", values.easf02,
       <<values.prm, "easf02">>),
     Sample("linky_index", "CounterValue", values.easf03,
       <<values.prm, "easf03">>),
     Sample("linky_index", "CounterValue", values.easf04,
       <<values.prm, "easf04">>),
     Sample("linky_index", "CounterValue", values.easf05,
       <<values.prm, "easf05">>),
     Sample("linky_index", "CounterValue", values.easf06,
       <<values.prm, "easf06">>),
     Sample("linky_index", "CounterValue", values.easf07,
       <<values.prm, "easf07">>),
     Sample("linky_index", "CounterValue", values.easf08,
       <<values.prm, "easf08">>),
     Sample("linky_index", "CounterValue", values.easf09,
       <<values.prm, "easf09">>),
     Sample("linky_index", "CounterValue", values.easf10,
       <<values.prm, "easf10">>),
     Sample("linky_index", "CounterValue", values.easd01,
       <<values.prm, "easd01">>),
     Sample("linky_index", "CounterValue", values.easd02,
       <<values.prm, "easd02">>),
     Sample("linky_index", "CounterValue", values.easd03,
       <<values.prm, "easd03">>),
     Sample("linky_index", "CounterValue", values.easd04,
       <<values.prm, "easd04">>),
     Sample("linky_index", "CounterValue", values.eait,
       <<values.prm, "eait">>),
     Sample("linky_index", "CounterValue", values.erq1,
       <<values.prm, "erq1">>),
     Sample("linky_index", "CounterValue", values.erq2,
       <<values.prm, "erq2">>),
     Sample("linky_index", "CounterValue", values.erq3,
       <<values.prm, "erq3">>),
     Sample("linky_index", "CounterValue", values.erq4,
       <<values.prm, "erq4">>),
     Sample("linky_current", "GaugeValue", values.irms1,
       <<values.prm, "1">>),
     Sample("linky_current", "GaugeValue", values.irms2,
       <<values.prm, "2">>),
     Sample("linky_current", "GaugeValue", values.irms3,
       <<values.prm, "3">>),
     Sample("linky_voltage", "GaugeValue", values.urms1,
       <<values.prm, "1">>),
     Sample("linky_voltage", "GaugeValue", values.urms2,
       <<values.prm, "2">>),
     Sample("linky_voltage", "GaugeValue", values.urms3,
       <<values.prm, "3">>),
     Sample("linky_subscribed_power", "GaugeValue", values.pref * 1000,
       <<values.prm, "pref">>),
     Sample("linky_subscribed_power", "GaugeValue", values.pcoup * 1000,
       <<values.prm, "pcoup">>),
     Sample("linky_power", "GaugeValue", values.sinsts,
       <<values.prm, "drawn", "sum">>),
     Sample("linky_power", "GaugeValue", values.sinsts1,
       <<values.prm, "drawn", "1">>),
     Sample("linky_power", "GaugeValue", values.sinsts2,
       <<values.prm, "drawn", "2">>),
     Sample("linky_power", "GaugeValue", values.sinsts3,
       <<values.prm, "drawn", "3">>),
     Sample("linky_power", "GaugeValue", values.sinsti,
       <<values.prm, "injected", "sum">>),
     Sample("linky_load_management", "GaugeValue", 1,
       <<values.prm, values.dpm1, values.dpm1_timestamp, values.fpm1, values.fpm1_timestamp, values.dpm2, values.dpm2_timestamp, values.fpm2, values.fpm2_timestamp, values.dpm3, values.dpm3_timestamp, values.fpm3, values.fpm3_timestamp, values.ppointe>>),
     Sample("linky_relays", "GaugeValue", values.relais,
       <<values.prm, "relays">>),
     Sample("linky_provider_day", "GaugeValue", 1,
       <<values.prm, values.njourf, values.njourf_1, values.pjourf_1>>) >>

\* ---- the lines the stream may deliver ----
\* the start-marker line: STX alone
L_STX == <<2>>
\* the end-marker line: ETX alone
L_ETX == <<3>>
\* prm<TAB>012345678901<TAB>
L_prm == <<112, 114, 109, 9, 48, 49, 50, 51, 52, 53, 54, 55, 56, 57, 48, 49, 9>>
\* east<TAB>001234567<TAB>
L_east == <<101, 97, 115, 116, 9, 48, 48, 49, 50, 51, 52, 53, 54, 55, 9>>
\* <TAB>prm<TAB>012345678901<TAB>
L_tab_prm == <<9, 112, 114, 109, 9, 48, 49, 50, 51, 52, 53, 54, 55, 56, 57, 48, 49, 9>>
\* <TAB>east<TAB>001234567<TAB>
L_tab_east == <<9, 101, 97, 115, 116, 9, 48, 48, 49, 50, 51, 52, 53, 54, 55, 9>>
\* east<TAB>abc<TAB>: not a number
L_east_abc == <<101, 97, 115, 116, 9, 97, 98, 99, 9>>
\* pref<TAB>256<TAB>: outside 8 bits
L_pref_256 == <<112, 114, 101, 102, 9, 50, 53, 54, 9>>
\* east with no payload token
L_east_bare == <<101, 97, 115, 116>>
\* dpm1<TAB>231201120000: one payload token of two
L_dpm1_short == <<100, 112, 109, 49, 9, 50, 51, 49, 50, 48, 49, 49, 50, 48, 48, 48, 48>>
\* PPOINTE<TAB>HC<TAB>5<CR><ETX><STX>: the last group of one frame, its ETX and the STX of the next frame, as the meter sends them before the next LF
L_boundary == <<80, 80, 79, 73, 78, 84, 69, 9, 72, 67, 9, 53, 13, 3, 2>>

Lines ==
  << L_STX,
     L_ETX,
     L_prm,
     L_east,
     L_tab_prm,
     L_tab_east,
     L_east_abc,
     L_pref_256,
     L_east_bare,
     L_dpm1_short,
     L_boundary >>

LineIds == 1..Len(Lines)

\* ---- Collect and readSerial ----
VARIABLES
  pc,         \* "idle": no collection running; "reading": inside the loop of
              \* readSerial; "exited": log.Fatal ended the process;
              \* "panicked": a run-time panic left Collect
  cycle,      \* collections started so far
  values,     \* the Snapshot of the current (or last) collection
  started,    \* readSerial's flag
  err,        \* what readSerial returned: "pending", "nil" or "err"
  ch,         \* the samples Collect sent on the channel in this collection
  read,       \* history: the lines ReadLine delivered in this collection
  forwarded,  \* history: the lines passed to proceedLine in this collection
  frame,      \* history: start-marker lines seen in this collection
  frames,     \* history: the values of frame under which a line changed values
  dirty,      \* history: the previous collection left a non-zero Snapshot
  handles     \* device handles opened by serial.OpenPort and not closed

vars == <<pc, cycle, values, started, err, ch, read, forwarded, frame, frames, dirty,
         handles>>

\* FreshValues keeping the Snapshot of the previous collection
FreshValues_Stale(prev) == prev

\* values := linkyValues{} ; prev is what the previous collection left behind
FreshValues(prev) == linkyValuesZero

\* readSerialLine without the test of started before proceedLine
readSerialLine_NoGate(st, v, line) ==
  IF st /\ Contains(line, ETX)
  THEN [break |-> TRUE, started |-> st, fwd |-> FALSE, panic |-> FALSE, v |-> v]
  ELSE LET st2 == st \/ Contains(line, STX)
           r   == proceedLine(v, line)
       IN  [break |-> FALSE, started |-> st2, fwd |-> TRUE,
            panic |-> r.panic, v |-> r.v]

\* readSerialLine starting from a zero Snapshot at every start marker
readSerialLine_Reset(st, v, line) ==
  IF st /\ Contains(line, ETX)
  THEN [break |-> TRUE, started |-> st, fwd |-> FALSE, panic |-> FALSE, v |-> v]
  ELSE LET st2 == st \/ Contains(line, STX)
           v2  == IF Contains(line, STX) THEN linkyValuesZero ELSE v
       IN  IF st2
           THEN LET r == proceedLine(v2, line)
                IN  [break |-> FALSE, started |-> st2, fwd |-> TRUE,
                     panic |-> r.panic, v |-> r.v]
           ELSE [break |-> FALSE, started |-> st2, fwd |-> FALSE,
                 panic |-> FALSE, v |-> v]

\* readSerialLine ending the loop on an end marker whatever started is
readSerialLine_EarlyBreak(st, v, line) ==
  IF Contains(line, ETX)
  THEN [break |-> TRUE, started |-> st, fwd |-> FALSE, panic |-> FALSE, v |-> v]
  ELSE LET st2 == st \/ Contains(line, STX)
       IN  IF st2
           THEN LET r == proceedLine(v, line)
                IN  [break |-> FALSE, started |-> st2, fwd |-> TRUE,
                     panic |-> r.panic, v |-> r.v]
           ELSE [break |-> FALSE, started |-> st2, fwd |-> FALSE,
                 panic |-> FALSE, v |-> v]

\* the body of the for loop of readSerial for a line that ReadLine delivered
readSerialLine(st, v, line) ==
  IF st /\ Contains(line, ETX)
  THEN [break |-> TRUE, started |-> st, fwd |-> FALSE, panic |-> FALSE, v |-> v]
  ELSE LET st2 == st \/ Contains(line, STX)
       IN  IF st2
           THEN LET r == proceedLine(v, line)
                IN  [break |-> FALSE, started |-> st2, fwd |-> TRUE,
                     panic |-> r.panic, v |-> r.v]
           ELSE [break |-> FALSE, started |-> st2, fwd |-> FALSE,
                 panic |-> FALSE, v |-> v]

\* CollectEmit without the test of err
CollectEmit_Always(e, v) == Project(v)

\* CollectEmit sending the subscribed powers as stored, not times 1000
CollectEmit_NoScale(e, v) ==
  IF e = "nil"
  THEN [i \in 1..Len(Project(v)) |->
          IF Project(v)[i].desc = "linky_subscribed_power"
          THEN [Project(v)[i] EXCEPT !.value = @ \div 1000]
          ELSE Project(v)[i]]
  ELSE <<>>

\* Collect after readSerial returned e: the samples sent on ch
CollectEmit(e, v) == IF e = "nil" THEN Project(v) ELSE <<>>

Init ==
  /\ pc = "idle"
  /\ cycle = 0
  /\ values = linkyValuesZero
  /\ started = FALSE
  /\ err = "pending"
  /\ ch = <<>>
  /\ read = <<>>
  /\ forwarded = <<>>
  /\ frame = 0
  /\ frames = {}
  /\ dirty = FALSE
  /\ handles = 0

\* Collect is called; readSerial opens the port and enters its loop
CollectOpen ==
  /\ pc = "idle"
  /\ cycle < MaxCycles
  /\ pc' = "reading"
  /\ cycle' = cycle + 1
  /\ values' = FreshValues(values)
  /\ started' = FALSE
  /\ err' = "pending"
  /\ ch' = <<>>
  /\ read' = <<>>
  /\ forwarded' = <<>>
  /\ frame' = 0
  /\ frames' = {}
  /\ dirty' = (cycle > 0 /\ values # linkyValuesZero)
  /\ handles' = handles + 1

\* Collect is called; serial.OpenPort fails and readSerial calls log.Fatal
CollectOpenFatal ==
  /\ pc = "idle"
  /\ cycle < MaxCycles
  /\ pc' = "exited"
  /\ cycle' = cycle + 1
  /\ values' = FreshValues(values)
  /\ started' = FALSE
  /\ err' = "pending"
  /\ ch' = <<>>
  /\ read' = <<>>
  /\ forwarded' = <<>>
  /\ frame' = 0
  /\ frames' = {}
  /\ dirty' = (cycle > 0 /\ values # linkyValuesZero)
  /\ UNCHANGED handles

\* ReadLine delivers line l: one turn of the loop; on break readSerial returns
\* nil and Collect sends the samples
ReadLine(l) ==
  /\ pc = "reading"
  /\ Len(read) < MaxLines
  /\ LET r == readSerialLine(started, values, Lines[l])
         f == IF ~r.break /\ Contains(Lines[l], STX) THEN frame + 1 ELSE frame
     IN  /\ read' = Append(read, l)
         /\ started' = r.started
         /\ values' = r.v
         /\ forwarded' = IF r.fwd THEN Append(forwarded, l) ELSE forwarded
         /\ frame' = f
         /\ frames' = IF r.fwd /\ r.v # values THEN frames \cup {f} ELSE frames
         /\ pc' = IF r.panic THEN "panicked" ELSE IF r.break THEN "idle" ELSE "reading"
         /\ err' = IF r.break THEN "nil" ELSE err
         /\ ch' = IF r.break THEN CollectEmit("nil", r.v) ELSE ch
  /\ UNCHANGED <<cycle, dirty, handles>>

\* ReadLine fails: readSerial returns the error and Collect logs it
ReadError ==
  /\ pc = "reading"
  /\ pc' = "idle"
  /\ err' = "err"
  /\ ch' = CollectEmit("err", values)
  /\ UNCHANGED <<cycle, values, started, read, forwarded, frame, frames, dirty,
                 handles>>

Next ==
  \/ CollectOpen
  \/ CollectOpenFatal
  \/ \E l \in LineIds : ReadLine(l)
  \/ ReadError

Spec == Init /\ [][Next]_vars

\* ---- helpers for the properties ----
\* the lines proceedLine decoded, replayed on a Snapshot
RECURSIVE DecodeLines(_, _)
DecodeLines(v, ls) ==
  IF ls = <<>> THEN v
  ELSE DecodeLines(proceedLine(v, Lines[Head(ls)]).v, Tail(ls))

\* the collection read exactly the lines ls, in this order
ReadIs(ls) ==
  /\ Len(read) = Len(ls)
  /\ \A i \in 1..Len(ls) : Lines[read[i]] = ls[i]

\* readSerial returned nil and Collect returned
Success == pc = "idle" /\ err = "nil"

HasStart(l) == Contains(Lines[l], STX)
HasEnd(l) == Contains(Lines[l], ETX)

NoStartSeen == \A i \in 1..Len(read) : ~HasStart(read[i])

\* the position in read of the first start-marker line
StartIdx ==
  CHOOSE i \in 1..Len(read) :
    HasStart(read[i]) /\ \A j \in 1..(i - 1) : ~HasStart(read[j])

\* a field line: no marker, an identifier and at least one payload token
IsFieldLine(l) ==
  /\ ~HasStart(l)
  /\ ~HasEnd(l)
  /\ Len(Split(Lines[l], TAB)) >= 2

\* the lines strictly between the start-marker line and the last line read
Between == SubSeq(read, StartIdx + 1, Len(read) - 1)

\* the collection succeeded on a start-marker line, one or more field lines
\* and an end-marker line
WellFormedFrame ==
  /\ Success
  /\ Len(Between) >= 1
  /\ \A i \in 1..Len(Between) : IsFieldLine(Between[i])

\* the numeric field a line addresses, when its payload does not parse
ParseFails(line, f) ==
  LET data == Split(line, TAB)
  IN  /\ f \in NumericFields
      /\ ToLower(data[1]) = Ident[f]
      /\ Len(data) >= 2
      /\ \/ f \in Uint32Fields /\ ParseUint(data[2], 32).err # "nil"
         \/ f \in Uint16Fields /\ ParseUint(data[2], 16).err # "nil"
         \/ f \in Uint8Fields /\ ParseUint(data[2], 8).err # "nil"
         \/ f \in Int16Fields /\ ParseInt16(data[2]).err # "nil"

\* ---- properties ----

\* C1: when the lines read hold a well-formed frame (start-marker line, one
\* or more field lines, end-marker line) and readSerial succeeds, the Snapshot
\* holds exactly what the lines between the two marker lines carry.
C1_SnapshotIsBetweenLines ==
  WellFormedFrame => values = DecodeLines(linkyValuesZero, Between)

\* C2: a read failure yields no Snapshot: readSerial returned the error and
\* Collect sent no sample, whatever was decoded before.
C2_ReadFailureEmitsNothing ==
  (err = "err") => (pc = "idle" /\ ch = <<>>)

C2_Witness ==
  /\ err = "err"
  /\ started
  /\ values # linkyValuesZero
  /\ ch = <<>>

\* C3: a forwarded line that addresses a numeric field with a payload that
\* does not parse leaves that field at the value it had before the line.
C3_ParseFailureKeepsValue ==
  [][\A l \in LineIds : \A f \in NumericFields :
       ( /\ read' = Append(read, l)
         /\ forwarded' = Append(forwarded, l)
         /\ ParseFails(Lines[l], f) )
       => values'[f] = values[f]]_vars

\* C4: proceedLine always returns normally: no line makes Collect panic.
C4_DecoderNeverRaises == pc # "panicked"

\* C5: no failure to open the byte source ends the process.
C5_OpenFailureNotFatal == pc # "exited"

\* C6: while no line read contains the start marker, no line has been passed
\* to proceedLine and the Snapshot is at its zero value.
C6_NoStartNoDecode ==
  (cycle >= 1 /\ NoStartSeen) =>
    (~started /\ forwarded = <<>> /\ values = linkyValuesZero)

C6_Witness ==
  /\ err = "err"
  /\ NoStartSeen
  /\ \E i \in 1..Len(read) : Lines[read[i]] = L_ETX
  /\ \E i \in 1..Len(read) : Lines[read[i]] = L_east
  /\ values = linkyValuesZero

\* C7: samples are sent only when at least one line lies between the
\* start-marker line and the end-marker line.
C7_EmptyFrameEmitsNothing ==
  (cycle >= 1 /\ ch # <<>>) => Len(Between) >= 1

\* C8: a Snapshot returned as complete holds fields of one frame only: all
\* the lines that changed it were read under the same start marker.
C8_SingleFrameSnapshot ==
  Success => Cardinality(frames) <= 1

\* C9: every collection starts from the zero Snapshot: the Snapshot is what
\* the lines forwarded in this collection decode to from zero, and the samples
\* are the projection of that.
C9_FreshSnapshotPerCycle ==
  (cycle >= 1) =>
    /\ values = DecodeLines(linkyValuesZero, forwarded)
    /\ ch # <<>> => ch = Project(DecodeLines(linkyValuesZero, forwarded))

C9_Witness ==
  /\ cycle >= 2
  /\ dirty
  /\ Success
  /\ values = linkyValuesZero
  /\ ch = Project(linkyValuesZero)

\* what the example frame must yield
ExamplePrm == <<48, 49, 50, 51, 52, 53, 54, 55, 56, 57, 48, 49>>

ExampleYield ==
  /\ values.prm = ExamplePrm
  /\ values.east = U32(1234567)
  /\ \E i \in 1..Len(ch) :
       ch[i] = Sample("linky_index", "CounterValue", U32(1234567),
                      <<ExamplePrm, "east">>)

\* C10 as stated: the frame whose two field lines begin with a tab byte
\* yields prm = "012345678901", east = 1234567 and the east index sample.
C10_TabPrefixedExample ==
  (Success /\ ReadIs(<<L_STX, L_tab_prm, L_tab_east, L_ETX>>)) => ExampleYield

\* C10 amended: the frame whose two field lines begin with the identifier
\* (prm<TAB>012345678901<TAB>, east<TAB>001234567<TAB>) yields
\* prm = "012345678901", east = 1234567 and the east index sample; with a
\* leading tab byte token[0] is empty and both fields stay at zero.
C10_ExampleFrame ==
  /\ (Success /\ ReadIs(<<L_STX, L_prm, L_east, L_ETX>>)) => ExampleYield
  /\ (Success /\ ReadIs(<<L_STX, L_tab_prm, L_tab_east, L_ETX>>)) =>
       (values.prm = <<>> /\ values.east = <<0, 0>>)

C10_Witness ==
  /\ Success
  /\ ReadIs(<<L_STX, L_prm, L_east, L_ETX>>)
  /\ values.east = U32(1234567)

\* ---- the decoder on its own: inputs ----
\* a Snapshot with every field away from its zero value
FilledValues ==
  [ adsc |-> <<88>>, vtic |-> <<88>>, date |-> <<88>>, ngtf |-> <<88>>,
    ltarf |-> <<88>>, east |-> <<1, 1>>, easf01 |-> <<1, 1>>, easf02 |-> <<1, 1>>,
    easf03 |-> <<1, 1>>, easf04 |-> <<1, 1>>, easf05 |-> <<1, 1>>, easf06 |-> <<1, 1>>,
    easf07 |-> <<1, 1>>, easf08 |-> <<1, 1>>, easf09 |-> <<1, 1>>, easf10 |-> <<1, 1>>,
    easd01 |-> <<1, 1>>, easd02 |-> <<1, 1>>, easd03 |-> <<1, 1>>, easd04 |-> <<1, 1>>,
    eait |-> <<1, 1>>, erq1 |-> <<1, 1>>, erq2 |-> <<1, 1>>, erq3 |-> <<1, 1>>,
    erq4 |-> <<1, 1>>, irms1 |-> 7, irms2 |-> 7, irms3 |-> 7,
    urms1 |-> 7, urms2 |-> 7, urms3 |-> 7, pref |-> 7,
    pcoup |-> 7, sinsts |-> 7, sinsts1 |-> -7, sinsts2 |-> -7,
    sinsts3 |-> -7, sinsti |-> 7, stge |-> <<88>>, dpm1 |-> <<88>>,
    dpm1_timestamp |-> <<88>>, fpm1 |-> <<88>>, fpm1_timestamp |-> <<88>>, dpm2 |-> <<88>>,
    dpm2_timestamp |-> <<88>>, fpm2 |-> <<88>>, fpm2_timestamp |-> <<88>>, dpm3 |-> <<88>>,
    dpm3_timestamp |-> <<88>>, fpm3 |-> <<88>>, fpm3_timestamp |-> <<88>>, msg1 |-> <<88>>,
    msg2 |-> <<88>>, prm |-> <<88>>, relais |-> 7, ntarf |-> <<88>>,
    njourf |-> <<88>>, njourf_1 |-> <<88>>, pjourf_1 |-> <<88>>, ppointe |-> <<88>> ]

\* n \div 10 and n % 10 on the <<hi, lo>> representation
DivMod10(n) ==
  LET t == (n[1] % 10) * 65536 + n[2]
  IN  [q |-> <<n[1] \div 10, t \div 10>>, r |-> t % 10]

\* the base-10 text of an unsigned value
RECURSIVE FormatUint(_)
FormatUint(n) ==
  IF n[1] = 0 /\ n[2] < 10 THEN <<48 + n[2]>>
  ELSE FormatUint(DivMod10(n).q) \o <<48 + DivMod10(n).r>>

Zeros(pad) == [i \in 1..pad |-> 48]

\* the base-10 text of the value v of numeric field f, pad zeros in front of
\* the digits (after the sign)
FormatNum(f, v, pad) ==
  IF f \in Uint32Fields THEN Zeros(pad) \o FormatUint(v)
  ELSE IF v < 0 THEN <<45>> \o Zeros(pad) \o FormatUint(<<0, -v>>)
  ELSE Zeros(pad) \o FormatUint(<<0, v>>)

\* numeric inputs: field, value, zeros in front; the line is
\* identifier<TAB>text of the value<TAB>
NumCases ==
  << [f |-> "east", v |-> <<65535, 65535>>, pad |-> 0],
     [f |-> "easf01", v |-> <<65535, 65535>>, pad |-> 0],
     [f |-> "easf02", v |-> <<65535, 65535>>, pad |-> 0],
     [f |-> "easf03", v |-> <<65535, 65535>>, pad |-> 0],
     [f |-> "easf04", v |-> <<65535, 65535>>, pad |-> 0],
     [f |-> "easf05", v |-> <<65535, 65535>>, pad |-> 0],
     [f |-> "easf06", v |-> <<65535, 65535>>, pad |-> 0],
     [f |-> "easf07", v |-> <<65535, 65535>>, pad |-> 0],
     [f |-> "easf08", v |-> <<65535, 65535>>, pad |-> 0],
     [f |-> "easf09", v |-> <<65535, 65535>>, pad |-> 0],
     [f |-> "easf10", v |-> <<65535, 65535>>, pad |-> 0],
     [f |-> "easd01", v |-> <<65535, 65535>>, pad |-> 0],
     [f |-> "easd02", v |-> <<65535, 65535>>, pad |-> 0],
     [f |-> "easd03", v |-> <<65535, 65535>>, pad |-> 0],
     [f |-> "easd04", v |-> <<65535, 65535>>, pad |-> 0],
     [f |-> "eait", v |-> <<65535, 65535>>, pad |-> 0],
     [f |-> "erq1", v |-> <<65535, 65535>>, pad |-> 0],
     [f |-> "erq2", v |-> <<65535, 65535>>, pad |-> 0],
     [f |-> "erq3", v |-> <<65535, 65535>>, pad |-> 0],
     [f |-> "erq4", v |-> <<65535, 65535>>, pad |-> 0],
     [f |-> "irms1", v |-> 65535, pad |-> 0],
     [f |-> "irms2", v |-> 65535, pad |-> 0],
     [f |-> "irms3", v |-> 65535, pad |-> 0],
     [f |-> "urms1", v |-> 65535, pad |-> 0],
     [f |-> "urms2", v |-> 65535, pad |-> 0],
     [f |-> "urms3", v |-> 65535, pad |-> 0],
     [f |-> "pref", v |-> 255, pad |-> 0],
     [f |-> "pcoup", v |-> 255, pad |-> 0],
     [f |-> "sinsts", v |-> 65535, pad |-> 0],
     [f |-> "sinsts1", v |-> 32767, pad |-> 0],
     [f |-> "sinsts2", v |-> 32767, pad |-> 0],
     [f |-> "sinsts3", v |-> 32767, pad |-> 0],
     [f |-> "sinsti", v |-> 65535, pad |-> 0],
     [f |-> "relais", v |-> 255, pad |-> 0],
     [f |-> "east", v |-> <<0, 0>>, pad |-> 0],
     [f |-> "east", v |-> U32(1234567), pad |-> 2],
     [f |-> "east", v |-> <<1, 0>>, pad |-> 0],
     [f |-> "irms1", v |-> 230, pad |-> 2],
     [f |-> "urms1", v |-> 0, pad |-> 3],
     [f |-> "pref", v |-> 9, pad |-> 1],
     [f |-> "relais", v |-> 0, pad |-> 0],
     [f |-> "sinsts1", v |-> -42, pad |-> 3],
     [f |-> "sinsts1", v |-> -32768, pad |-> 0],
     [f |-> "sinsts2", v |-> 0, pad |-> 0],
     [f |-> "sinsts3", v |-> -1, pad |-> 4] >>

\* text inputs: identifier as written and payload tokens; the line is the
\* tokens joined by TAB (a last empty token is a trailing TAB)
TextCases ==
  \* adsc
  << [id |-> <<97, 100, 115, 99>>, toks |-> <<<<86, 65, 68, 83>>, <<>>>>],
  \* vtic
     [id |-> <<118, 116, 105, 99>>, toks |-> <<<<86, 86, 84, 73>>, <<>>>>],
  \* date
     [id |-> <<100, 97, 116, 101>>, toks |-> <<<<86, 68, 65, 84>>, <<>>>>],
  \* ngtf
     [id |-> <<110, 103, 116, 102>>, toks |-> <<<<86, 78, 71, 84>>, <<>>>>],
  \* ltarf
     [id |-> <<108, 116, 97, 114, 102>>, toks |-> <<<<86, 76, 84, 65>>, <<>>>>],
  \* stge
     [id |-> <<115, 116, 103, 101>>, toks |-> <<<<86, 83, 84, 71>>, <<>>>>],
  \* msg1
     [id |-> <<109, 115, 103, 49>>, toks |-> <<<<86, 77, 83, 71>>, <<>>>>],
  \* msg2
     [id |-> <<109, 115, 103, 50>>, toks |-> <<<<86, 77, 83, 71>>, <<>>>>],
  \* prm
     [id |-> <<112, 114, 109>>, toks |-> <<<<86, 80, 82, 77>>, <<>>>>],
  \* ntarf
     [id |-> <<110, 116, 97, 114, 102>>, toks |-> <<<<86, 78, 84, 65>>, <<>>>>],
  \* njourf
     [id |-> <<110, 106, 111, 117, 114, 102>>, toks |-> <<<<86, 78, 74, 79>>, <<>>>>],
  \* njourf+1
     [id |-> <<110, 106, 111, 117, 114, 102, 43, 49>>, toks |-> <<<<86, 78, 74, 79>>, <<>>>>],
  \* pjourf+1
     [id |-> <<112, 106, 111, 117, 114, 102, 43, 49>>, toks |-> <<<<86, 80, 74, 79>>, <<>>>>],
  \* ppointe
     [id |-> <<112, 112, 111, 105, 110, 116, 101>>, toks |-> <<<<86, 80, 80, 79>>, <<>>>>],
  \* dpm1
     [id |-> <<100, 112, 109, 49>>, toks |-> <<<<50, 51, 49, 50, 48, 49, 49, 50, 48, 48, 48, 48>>, <<72, 67, 72, 80>>, <<>>>>],
  \* fpm1
     [id |-> <<102, 112, 109, 49>>, toks |-> <<<<50, 51, 49, 50, 48, 50, 49, 50, 48, 48, 48, 48>>, <<72, 80, 72, 67>>, <<>>>>],
  \* dpm2
     [id |-> <<100, 112, 109, 50>>, toks |-> <<<<50, 51, 49, 50, 48, 51, 49, 50, 48, 48, 48, 48>>, <<80, 77, 50, 68>>, <<>>>>],
  \* fpm2
     [id |-> <<102, 112, 109, 50>>, toks |-> <<<<50, 51, 49, 50, 48, 52, 49, 50, 48, 48, 48, 48>>, <<80, 77, 50, 70>>, <<>>>>],
  \* dpm3
     [id |-> <<100, 112, 109, 51>>, toks |-> <<<<50, 51, 49, 50, 48, 53, 49, 50, 48, 48, 48, 48>>, <<80, 77, 51, 68>>, <<>>>>],
  \* fpm3
     [id |-> <<102, 112, 109, 51>>, toks |-> <<<<50, 51, 49, 50, 48, 54, 49, 50, 48, 48, 48, 48>>, <<80, 77, 51, 70>>, <<>>>>],
  \* EAST: upper case
     [id |-> <<69, 65, 83, 84>>, toks |-> <<<<48, 48, 49, 50, 51, 52, 53, 54, 55>>, <<>>>>],
  \* Prm: mixed case
     [id |-> <<80, 114, 109>>, toks |-> <<<<48, 49, 50, 51, 52, 53, 54, 55, 56, 57, 48, 49>>, <<>>>>],
  \* DPM1: upper case
     [id |-> <<68, 80, 77, 49>>, toks |-> <<<<50, 51, 49, 50, 48, 49, 49, 50, 48, 48, 48, 48>>, <<72, 67, 72, 80>>, <<>>>>],
  \* NJOURF+1: upper case
     [id |-> <<78, 74, 79, 85, 82, 70, 43, 49>>, toks |-> <<<<48, 48>>, <<>>>>],
  \* sInStS1: mixed case
     [id |-> <<115, 73, 110, 83, 116, 83, 49>>, toks |-> <<<<45, 48, 48, 48, 52, 50>>, <<>>>>],
  \* unknown identifier
     [id |-> <<102, 111, 111>>, toks |-> <<<<98, 97, 114>>, <<>>>>],
  \* unknown identifier with a known prefix
     [id |-> <<69, 65, 83, 84, 88>>, toks |-> <<<<53>>, <<>>>>],
  \* unknown identifier, no payload token
     [id |-> <<115, 109, 97, 120, 115, 110>>, toks |-> <<>>],
  \* empty identifier: the line begins with a tab
     [id |-> <<>>, toks |-> <<<<101, 97, 115, 116>>, <<53>>, <<>>>>],
  \* the empty line
     [id |-> <<>>, toks |-> <<>>] >>


\* tokens joined by TAB
RECURSIVE JoinTab(_)
JoinTab(toks) ==
  IF Len(toks) = 0 THEN <<>>
  ELSE IF Len(toks) = 1 THEN toks[1]
  ELSE toks[1] \o <<TAB>> \o JoinTab(Tail(toks))

MakeNumLine(c) == JoinTab(<<Ident[c.f], FormatNum(c.f, c.v, c.pad), <<>>>>)

MakeTextLine(c) == JoinTab(<<c.id>> \o c.toks)

\* the lines handed to proceedLine: the numeric inputs, then the text inputs
DecLines ==
  [i \in 1..(Len(NumCases) + Len(TextCases)) |->
     IF i <= Len(NumCases) THEN MakeNumLine(NumCases[i])
     ELSE MakeTextLine(TextCases[i - Len(NumCases)])]

DecIds == 1..Len(DecLines)

\* ---- the decoder on its own: proceedLine applied to a Snapshot ----
\* lines decoded in a row
MaxDecode == 2

\* In this specification values is the Snapshot handed to proceedLine,
\* forwarded the positions in DecLines of the lines decoded so far, and pc is
\* "decoding" until a panic; the other variables do not move.
InitDecode ==
  /\ pc = "decoding"
  /\ cycle = 1
  /\ values \in {linkyValuesZero, FilledValues}
  /\ started = TRUE
  /\ err = "pending"
  /\ ch = <<>>
  /\ read = <<>>
  /\ forwarded = <<>>
  /\ frame = 1
  /\ frames = {}
  /\ dirty = FALSE
  /\ handles = 1

\* collector.proceedLine(linkyValues, line) for the line DecLines[l]
DecodeLine(l) ==
  /\ pc = "decoding"
  /\ Len(forwarded) < MaxDecode
  /\ LET r == proceedLine(values, DecLines[l])
     IN  /\ values' = r.v
         /\ pc' = IF r.panic THEN "panicked" ELSE "decoding"
  /\ forwarded' = Append(forwarded, l)
  /\ UNCHANGED <<cycle, started, err, ch, read, frame, frames, dirty, handles>>

NextDecode == \E l \in DecIds : DecodeLine(l)

SpecDecode == InitDecode /\ [][NextDecode]_vars

\* the line decoded last, and its position in DecLines
LastId == forwarded[Len(forwarded)]
LastLine == DecLines[LastId]

\* the step decodes a line; NewId is its position in DecLines
Decoded == Len(forwarded') = Len(forwarded) + 1
NewId == forwarded'[Len(forwarded')]

\* C11: decoding the base-10 text of a value of the field's range, with or
\* without zeros in front, stores exactly that value (SpecDecode).
C11_NumericRoundTrip ==
  (forwarded # <<>> /\ LastId <= Len(NumCases)) =>
    values[NumCases[LastId].f] = NumCases[LastId].v

\* sinsts1<TAB>-00042<TAB> decoded over a Snapshot that held -7
C11_Witness ==
  /\ Len(forwarded) = 1
  /\ LastLine = <<115, 105, 110, 115, 116, 115, 49, 9, 45, 48, 48, 48, 52, 50, 9>>
  /\ values.sinsts1 = -42
  /\ values.sinsts2 = -7

\* a and b are the same identifier up to the case of the ASCII letters of a
EqFold(a, b) ==
  /\ Len(a) = Len(b)
  /\ \A i \in 1..Len(a) : a[i] = b[i] \/ (a[i] \in 65..90 /\ a[i] + 32 = b[i])

\* the text input behind position l of DecLines
TextCase(l) == TextCases[l - Len(NumCases)]

IsTextCase(l) == l > Len(NumCases)

\* the two-value identifiers (case dpm1 .. case fpm3)
PairIdents == {"dpm1", "fpm1", "dpm2", "fpm2", "dpm3", "fpm3"}

Stamp(k) == k \o "_timestamp"

PairFields == PairIdents \cup {Stamp(k) : k \in PairIdents}

\* the Snapshot fields that belong to identifier k
Targets(k) == IF k \in PairIdents THEN {k, Stamp(k)} ELSE {k}

\* line l carries identifier k (in any letter case)
CaseIdent(l, k) ==
  IF IsTextCase(l) THEN EqFold(TextCase(l).id, Ident[k]) ELSE NumCases[l].f = k

\* the identifier each line carries, "" when it is not a recognised one
KeyOf ==
  [l \in DecIds |->
     IF \E k \in DOMAIN Ident : CaseIdent(l, k)
     THEN CHOOSE k \in DOMAIN Ident : CaseIdent(l, k)
     ELSE ""]

\* every identifier has its fields in the Snapshot, and the fields of two
\* different identifiers are different fields
TargetsDisjoint ==
  \A k \in DOMAIN Ident :
    /\ Targets(k) \subseteq FieldNames
    /\ \A k2 \in DOMAIN Ident \ {k} : Targets(k) \cap Targets(k2) = {}

\* C12: decoding the line that was decoded just before leaves the Snapshot as
\* the first decoding left it (SpecDecode).
C12_DecodeIdempotent ==
  [][(forwarded # <<>> /\ Decoded /\ NewId = LastId) => values' = values]_vars

\* Prm<TAB>012345678901<TAB> decoded twice over a Snapshot that held "X"
C12_Witness ==
  /\ Len(forwarded) = 2
  /\ forwarded[1] = forwarded[2]
  /\ LastLine = <<80, 114, 109, 9>> \o ExamplePrm \o <<9>>
  /\ values.prm = ExamplePrm
  /\ values.adsc = <<88>>

\* C13: a line dpmN/fpmN<TAB>timestamp<TAB>label stores the label in the
\* like-named field and the timestamp in its _timestamp field, and leaves
\* the other dpm/fpm fields as they were (SpecDecode).
C13_PairStoresLabelAndStamp ==
  [][(Decoded /\ KeyOf[NewId] \in PairIdents) =>
       LET k == KeyOf[NewId]
       IN  /\ values'[k] = TextCase(NewId).toks[2]
           /\ values'[Stamp(k)] = TextCase(NewId).toks[1]
           /\ \A g \in PairFields \ {k, Stamp(k)} : values'[g] = values[g]]_vars

\* dpm1<TAB>231201120000<TAB>HCHP<TAB> decoded over a Snapshot whose
\* dpm/fpm fields held "X"
C13_Witness ==
  /\ Len(forwarded) = 1
  /\ LastLine = <<100, 112, 109, 49, 9, 50, 51, 49, 50, 48, 49, 49, 50, 48,
                  48, 48, 48, 9, 72, 67, 72, 80, 9>>
  /\ values.dpm1 = <<72, 67, 72, 80>>
  /\ values.dpm1_timestamp = <<50, 51, 49, 50, 48, 49, 49, 50, 48, 48, 48, 48>>
  /\ values.fpm1 = <<88>>
  /\ values.fpm1_timestamp = <<88>>
  /\ values.dpm2 = <<88>>

\* C14: a line whose identifier is a recognised one in any letter case is
\* decoded as the same line with the identifier in lower case; a line whose
\* identifier is not recognised leaves the Snapshot as it was and raises
\* nothing (SpecDecode).
C14_CaseInsensitiveAndClosed ==
  [][(Decoded /\ IsTextCase(NewId)) =>
       IF KeyOf[NewId] # ""
       THEN values' = proceedLine(values,
                        MakeTextLine([id |-> Ident[KeyOf[NewId]],
                                      toks |-> TextCase(NewId).toks])).v
       ELSE values' = values /\ pc' = "decoding"]_vars

\* EAST<TAB>001234567<TAB> decoded over the zero Snapshot
C14_Witness ==
  /\ Len(forwarded) = 1
  /\ LastLine = <<69, 65, 83, 84, 9, 48, 48, 49, 50, 51, 52, 53, 54, 55, 9>>
  /\ values.east = U32(1234567)
  /\ values.prm = <<>>

\* C20: decoding a line with a recognised identifier writes the payload to
\* the field(s) of that identifier and changes no other field, and the fields
\* of two different identifiers are different fields (SpecDecode).
C20_OnlyOwnFields ==
  [][(Decoded /\ KeyOf[NewId] # "") =>
       LET l == NewId
           k == KeyOf[NewId]
       IN  /\ TargetsDisjoint
           /\ \A f \in FieldNames \ Targets(k) : values'[f] = values[f]
           /\ IsTextCase(l) /\ k \notin PairIdents \cup NumericFields =>
                values'[k] = TextCase(l).toks[1]
           /\ ~IsTextCase(l) => values'[k] = NumCases[l].v]_vars

\* njourf+1<TAB>VNJO<TAB> decoded over a Snapshot whose fields held "X"
C20_Witness ==
  /\ Len(forwarded) = 1
  /\ LastLine = <<110, 106, 111, 117, 114, 102, 43, 49, 9, 86, 78, 74, 79, 9>>
  /\ values.njourf_1 = <<86, 78, 74, 79>>
  /\ values.njourf = <<88>>
  /\ values.pjourf_1 = <<88>>

\* ---- properties of Collect and readSerial, continued (Spec) ----

\* the metric families in the order of the samples of one collection
SampleShape ==
  <<"linky_info">> \o [i \in 1..20 |-> "linky_index"]
    \o [i \in 1..3 |-> "linky_current"] \o [i \in 1..3 |-> "linky_voltage"]
    \o [i \in 1..2 |-> "linky_subscribed_power"] \o [i \in 1..5 |-> "linky_power"]
    \o <<"linky_load_management", "linky_relays", "linky_provider_day">>

\* C15: a successful collection sends the same ordered sequence of samples
\* whatever the frame carried; every sample has the Snapshot's prm as first
\* label; the subscribed-power samples are pref * 1000 and pcoup * 1000; the
\* identity, load-management and provider-day samples are 1.
C15_FixedSampleSequence ==
  Success =>
    /\ [i \in 1..Len(ch) |-> ch[i].desc] = SampleShape
    /\ \A i \in 1..Len(ch) :
         /\ ch[i].labels[1] = values.prm
         /\ ch[i].desc \in {"linky_info", "linky_load_management",
                            "linky_provider_day"} => ch[i].value = 1
         /\ ch[i].desc = "linky_subscribed_power" =>
              /\ ch[i].labels[2] \in {"pref", "pcoup"}
              /\ ch[i].labels[2] = "pref" => ch[i].value = values.pref * 1000
              /\ ch[i].labels[2] = "pcoup" => ch[i].value = values.pcoup * 1000
    /\ \E i \in 1..Len(ch) :
         ch[i].desc = "linky_subscribed_power" /\ ch[i].labels[2] = "pref"
    /\ \E i \in 1..Len(ch) :
         ch[i].desc = "linky_subscribed_power" /\ ch[i].labels[2] = "pcoup"

\* the frame "\x02", pref<TAB>256<TAB>, prm<TAB>012345678901<TAB>, "\x03"
C15_Witness ==
  /\ Success
  /\ ReadIs(<<L_STX, L_pref_256, L_prm, L_ETX>>)
  /\ values.pref = 255
  /\ ch[28].value = 255000
  /\ ch[28].labels = <<ExamplePrm, "pref">>

\* the line read last is the first to contain the start marker
LastIsFirstStart ==
  /\ read # <<>>
  /\ HasStart(read[Len(read)])
  /\ \A i \in 1..(Len(read) - 1) : ~HasStart(read[i])

\* C16: a line with both markers read outside a frame ends the reading at
\* that line and is not passed to proceedLine.
C16_StartCheckedBeforeEnd ==
  (cycle >= 1 /\ LastIsFirstStart /\ HasEnd(read[Len(read)])) =>
    (Success /\ forwarded = <<>>)

\* C17: a step that reads a line with the start marker does not pass that
\* line to proceedLine and leaves the Snapshot as it was.
C17_StartLineNotForwarded ==
  [][\A l \in LineIds :
       (read' = Append(read, l) /\ HasStart(l)) =>
         (forwarded' = forwarded /\ values' = values)]_vars

\* C18: inside one call of readSerial started never goes back to false, and
\* a further start-marker line read while started resets nothing: the
\* Snapshot is what it was before that line.
C18_StartedMonotonic ==
  [][/\ (started /\ cycle' = cycle) => started'
     /\ \A l \in LineIds :
          (started /\ read' = Append(read, l) /\ Lines[l] = L_STX) =>
            (values' = values /\ pc' = "reading")]_vars

\* the frame "\x02", east<TAB>001234567<TAB>, "\x02", "\x03"
C18_Witness ==
  /\ Success
  /\ ReadIs(<<L_STX, L_east, L_STX, L_ETX>>)
  /\ values.east = U32(1234567)

\* position i of read holds a line with the end marker read while started
EndsAt(i) ==
  /\ HasEnd(read[i])
  /\ \E j \in 1..(i - 1) : HasStart(read[j])

\* C19: readSerial has returned nil exactly when the line read last is the
\* first with the end marker read inside a frame, it has returned the error
\* exactly when a read failed, and until one of the two it is still in its
\* loop. A step reading a line returns iff that line ends the frame.
C19_ReturnsOnEndOrError ==
  /\ [](cycle >= 1 =>
          /\ \A i \in 1..(Len(read) - 1) : ~EndsAt(i)
          /\ err = "nil" <=> (read # <<>> /\ EndsAt(Len(read)))
          /\ pc = "idle" <=> err \in {"nil", "err"}
          /\ pc = "reading" => err = "pending")
  /\ [][\A l \in LineIds :
          read' = Append(read, l) =>
            (pc' = "idle" <=> (started /\ HasEnd(l)))]_vars

\* the end marker read first outside a frame and then inside it
C19_Witness ==
  /\ Success
  /\ ReadIs(<<L_ETX, L_STX, L_east, L_ETX>>)

\* C21: a collection holds exactly one device handle while it reads, and none
\* is left open once it has returned.
C21_HandleReleasedOnReturn ==
  /\ pc = "reading" => handles = 1
  /\ pc = "idle" => handles = 0

====
